---- MODULE Spec2Model ----
(***************************************************************************)
(* A model of the B+ tree of kirillkuts/b-plus-tree: BPlusTree.ts,         *)
(* InternalNode.ts, LeafNode.ts and Node.ts.                               *)
(*                                                                         *)
(* The node graph is an arena: `nodes` is the sequence of all node objects *)
(* ever allocated, a reference is an index into it and 0 is null.  Keys    *)
(* are positive integers, values are positive integers, 0 stands for       *)
(* undefined.  An internal node's keys array starts with the null          *)
(* sentinel the constructor puts there (InternalNode.ts:21), so the i-th   *)
(* separator is keys[i] for i >= 1 in the source and keys[i+1] here,       *)
(* sequences being 1-based.  Operators that take a position take the       *)
(* source's 0-based position.                                              *)
(***************************************************************************)
EXTENDS Integers, Sequences, FiniteSets, TLC

\* ------------------------------------------------------------------ bounds
MaxKey == 5
MaxKeyIns == 8
MaxVal == 2
MaxOrder == 4
MaxNodes == 7
MaxDeletes == 4
MaxDeletesWide == 2
MaxLeaves == 3
MaxKeyNode == 10
MaxNodesNode == 8

\* --------------------------------------------------------- program values
MinOrder == 3
NullRef == 0
NullKey == 0
Undefined == 0

Keys == 1..MaxKey
KeysIns == 1..MaxKeyIns
KeysNode == 1..MaxKeyNode
AllKeys == Keys \cup KeysIns \cup KeysNode
Vals == 1..MaxVal
OrderInputs == (MinOrder - 1)..MaxOrder

VARIABLES
  order,    \* BPlusTree.order
  created,  \* whether the constructor returned a tree
  root,     \* BPlusTree.root, a reference
  nodes,    \* the arena of node objects
  ret,      \* the last call and how it ended
  present,  \* history: key -> the value of the last insert not followed by a delete, or Undefined
  deletes   \* history: the number of delete calls so far

vars == <<order, created, root, nodes, ret, present, deletes>>

\* ------------------------------------------------------- array primitives
\* Array.prototype.slice(from, to) with 0 <= from, positions 0-based
Slice(s, from, to) == SubSeq(s, from + 1, IF to < Len(s) THEN to ELSE Len(s))
SliceFrom(s, from) == SubSeq(s, from + 1, Len(s))

\* s[j] = v on an array: in range it replaces, at the end it appends, and a
\* negative j sets a property that no array operation reads
SetIdx(s, j, v) ==
  IF j < 0 THEN s
  ELSE IF j < Len(s) THEN [s EXCEPT ![j + 1] = v]
  ELSE Append(s, v)

Floor2(n) == n \div 2
Ceil2(n) == (n + 1) \div 2

\* ------------------------------------------------------------------- Node
NewLeaf ==
  [leaf |-> TRUE, keys |-> <<>>, values |-> <<>>, children |-> <<>>,
   parent |-> NullRef, next |-> NullRef, prev |-> NullRef]

NewInternal ==
  [leaf |-> FALSE, keys |-> <<NullKey>>, values |-> <<>>, children |-> <<>>,
   parent |-> NullRef, next |-> NullRef, prev |-> NullRef]

\* Node.getKeyCount, overridden by InternalNode.getKeyCount
GetKeyCount(n) == IF n.leaf THEN Len(n.keys) ELSE Len(n.keys) - 1

\* Node.getKeys, overridden by InternalNode.getKeys
GetKeys(n) == IF n.leaf THEN n.keys ELSE SliceFrom(n.keys, 1)

\* Node.getKey(index): keys[index + 1], undefined past the end; no subclass
\* overrides it
GetKey(n, index) ==
  IF index + 1 < Len(n.keys) THEN n.keys[index + 2] ELSE Undefined

\* Node.halfFull, overridden by InternalNode.halfFull
HalfFull(n, ord) ==
  IF n.leaf THEN GetKeyCount(n) >= Floor2(ord)
  ELSE Len(n.keys) >= Floor2(ord)

\* canBorrow without the `- 1`: a node at the minimum may lend
CanBorrowAtHalf(n, ord) == GetKeyCount(n) >= Floor2(ord)

\* Node.canBorrow
CanBorrow(n, ord) == GetKeyCount(n) - 1 >= Floor2(ord)

\* --------------------------------------------------------------- LeafNode
\* the position at which LeafNode.insert's scan stops
LeafScan(ks, key) ==
  LET hits == {i \in 0..(Len(ks) - 1) : ks[i + 1] > key \/ ks[i + 1] = key}
  IN IF hits = {} THEN Len(ks) ELSE CHOOSE i \in hits : \A j \in hits : i <= j

\* LeafNode.insert on the leaf id of heap h
LeafInsert(h, id, key, value) ==
  LET ks == h[id].keys
      vs == h[id].values
      i == LeafScan(ks, key)
      exist == i < Len(ks) /\ ks[i + 1] = key
  IN IF exist
     THEN [h EXCEPT ![id].values = SetIdx(vs, i, value)]
     ELSE [h EXCEPT ![id].keys = Slice(ks, 0, i) \o <<key>> \o SliceFrom(ks, i),
                    ![id].values = Slice(vs, 0, i) \o <<value>> \o SliceFrom(vs, i)]

\* what LeafNode.insert returns: TRUE for a new key, FALSE for an overwrite
LeafInsertReturns(n, key) ==
  LET i == LeafScan(n.keys, key)
  IN ~(i < Len(n.keys) /\ n.keys[i + 1] = key)

\* Array.prototype.findIndex(k => k === key), 0-based, -1 when there is none
FindIndex(ks, key) ==
  LET hits == {i \in 0..(Len(ks) - 1) : ks[i + 1] = key}
  IN IF hits = {} THEN -1 ELSE CHOOSE i \in hits : \A j \in hits : i <= j

\* LeafNode.search
LeafSearch(n, key) ==
  LET index == FindIndex(n.keys, key)
  IN IF index > -1 /\ index < Len(n.values) THEN n.values[index + 1] ELSE Undefined

\* LeafNode.delete: whether the key is there, and the heap without it
LeafDeleteFound(n, key) == FindIndex(n.keys, key) # -1

LeafDelete(h, id, key) ==
  LET index == FindIndex(h[id].keys, key)
  IN IF index = -1 THEN h
     ELSE [h EXCEPT ![id].keys = Slice(@, 0, index) \o SliceFrom(@, index + 1),
                    ![id].values = Slice(@, 0, index) \o SliceFrom(@, index + 1)]

\* the loop of LeafNode.split that fills the new leaf by insert, from position i
RECURSIVE FillNewLeaf(_, _, _, _, _)
FillNewLeaf(h, newId, ks, vs, i) ==
  IF i >= Len(ks) THEN h
  ELSE FillNewLeaf(LeafInsert(h, newId, ks[i + 1],
                              IF i < Len(vs) THEN vs[i + 1] ELSE Undefined),
                   newId, ks, vs, i + 1)

\* split that forgets `newLeafNode.next.prev = newLeafNode`
LeafSplitNoBackLink(h, id) ==
  LET newId == Len(h) + 1
      ks == h[id].keys
      vs == h[id].values
      keep == Ceil2(Len(vs))
      h1 == FillNewLeaf(Append(h, NewLeaf), newId, ks, vs, keep)
      h2 == [h1 EXCEPT ![id].keys = Slice(ks, 0, keep),
                       ![id].values = Slice(vs, 0, keep)]
  IN [h2 EXCEPT ![newId].next = h[id].next,
                ![newId].prev = id,
                ![id].next = newId]

\* split whose new leaf points back at the leaf it came from: newLeaf.next = this
LeafSplitNextBack(h, id) ==
  LET newId == Len(h) + 1
      ks == h[id].keys
      vs == h[id].values
      keep == Ceil2(Len(vs))
      h1 == FillNewLeaf(Append(h, NewLeaf), newId, ks, vs, keep)
      h2 == [h1 EXCEPT ![id].keys = Slice(ks, 0, keep),
                       ![id].values = Slice(vs, 0, keep)]
      oldNext == h[id].next
      h3 == [h2 EXCEPT ![newId].next = id,
                       ![newId].prev = id,
                       ![id].next = newId]
  IN IF oldNext # NullRef THEN [h3 EXCEPT ![oldNext].prev = newId] ELSE h3

\* LeafNode.split of the leaf id: the new leaf is the last node of the result
LeafSplit(h, id) ==
  LET newId == Len(h) + 1
      ks == h[id].keys
      vs == h[id].values
      keep == Ceil2(Len(vs))
      h1 == FillNewLeaf(Append(h, NewLeaf), newId, ks, vs, keep)
      h2 == [h1 EXCEPT ![id].keys = Slice(ks, 0, keep),
                       ![id].values = Slice(vs, 0, keep)]
      oldNext == h[id].next
      h3 == [h2 EXCEPT ![newId].next = oldNext,
                       ![newId].prev = id,
                       ![id].next = newId]
  IN IF oldNext # NullRef THEN [h3 EXCEPT ![oldNext].prev = newId] ELSE h3

\* the splitKey LeafNode.split returns: newLeafNode.keys[0]
LeafSplitKey(h, id) ==
  LET right == LeafSplit(h, id)[Len(h) + 1]
  IN IF Len(right.keys) > 0 THEN right.keys[1] ELSE Undefined

\* LeafNode.tryBorrowFromLeft: the key returned (Undefined when nothing is
\* borrowed) and the heap afterwards
BorrowLeftKey(h, id, ord) ==
  LET leftLeaf == h[id].prev
  IN IF leftLeaf # NullRef /\ CanBorrow(h[leftLeaf], ord)
     THEN h[leftLeaf].keys[Len(h[leftLeaf].keys)]
     ELSE Undefined

TryBorrowFromLeft(h, id, ord) ==
  LET leftLeaf == h[id].prev
  IN IF leftLeaf # NullRef /\ CanBorrow(h[leftLeaf], ord)
     THEN LET lk == h[leftLeaf].keys
              lv == h[leftLeaf].values
              key == lk[Len(lk)]
              value == lv[Len(lv)]
              h1 == [h EXCEPT ![leftLeaf].keys = Slice(lk, 0, Len(lk) - 1),
                              ![leftLeaf].values = Slice(lv, 0, Len(lv) - 1)]
          IN LeafInsert(h1, id, key, value)
     ELSE h

\* LeafNode.tryBorrowFromRight: the heap afterwards, and the key returned,
\* which is read from the right leaf after the shift
TryBorrowFromRight(h, id, ord) ==
  LET rightLeaf == h[id].next
  IN IF rightLeaf # NullRef /\ CanBorrow(h[rightLeaf], ord)
     THEN LET rk == h[rightLeaf].keys
              rv == h[rightLeaf].values
              h1 == [h EXCEPT ![rightLeaf].keys = SliceFrom(rk, 1),
                              ![rightLeaf].values = SliceFrom(rv, 1)]
          IN LeafInsert(h1, id, rk[1], rv[1])
     ELSE h

BorrowRightKey(h, id, ord) ==
  LET rightLeaf == h[id].next
  IN IF rightLeaf # NullRef /\ CanBorrow(h[rightLeaf], ord)
     THEN TryBorrowFromRight(h, id, ord)[rightLeaf].keys[1]
     ELSE Undefined

\* LeafNode.mergeWithRight, called on the leaf id with its right sibling
LeafMergeWithRight(h, id, rightSibling) ==
  LET h1 == [h EXCEPT ![id].keys = @ \o h[rightSibling].keys,
                      ![id].values = @ \o h[rightSibling].values]
      h2 == [h1 EXCEPT ![id].next = h1[rightSibling].next]
      nx == h2[id].next
  IN IF nx # NullRef THEN [h2 EXCEPT ![nx].prev = id] ELSE h2

\* ----------------------------------------------------------- InternalNode
\* the position at which insertKeyAndChild's scan `while (key > keys[i])` stops
InsertScan(ks, key) ==
  LET stops == {i \in 1..Len(ks) : i >= Len(ks) \/ ~(key > ks[i + 1])}
  IN CHOOSE i \in stops : \A j \in stops : i <= j

\* insertKeyAndChild whose first-separator branch pushes the key and not the child
InsertKeyAndChildKeyOnly(h, p, key, rightChild) ==
  LET h1 == [h EXCEPT ![rightChild].parent = p]
      ks == h1[p].keys
      cs == h1[p].children
      i == InsertScan(ks, key)
  IN IF Len(ks) = 1
     THEN [h1 EXCEPT ![p].keys = Append(ks, key)]
     ELSE [h1 EXCEPT ![p].keys = Slice(ks, 0, i) \o <<key>> \o SliceFrom(ks, i),
                     ![p].children = Slice(cs, 0, i) \o <<rightChild>> \o SliceFrom(cs, i)]

\* InternalNode.insertKeyAndChild on the node p
InsertKeyAndChild(h, p, key, rightChild) ==
  LET h1 == [h EXCEPT ![rightChild].parent = p]
      ks == h1[p].keys
      cs == h1[p].children
      i == InsertScan(ks, key)
  IN IF Len(ks) = 1
     THEN [h1 EXCEPT ![p].keys = Append(ks, key),
                     ![p].children = Append(cs, rightChild)]
     ELSE [h1 EXCEPT ![p].keys = Slice(ks, 0, i) \o <<key>> \o SliceFrom(ks, i),
                     ![p].children = Slice(cs, 0, i) \o <<rightChild>> \o SliceFrom(cs, i)]

\* findChild with `>=` for `>`: a key equal to a separator routes left
FindChildScanEqualLeft(ks, key) ==
  LET hits == {i \in 1..(Len(ks) - 1) : ks[i + 1] >= key}
  IN IF hits = {} THEN Len(ks) ELSE CHOOSE i \in hits : \A j \in hits : i <= j

\* the position at which findChild's loop stops
FindChildScan(ks, key) ==
  LET hits == {i \in 1..(Len(ks) - 1) : ks[i + 1] > key}
  IN IF hits = {} THEN Len(ks) ELSE CHOOSE i \in hits : \A j \in hits : i <= j

\* findChild that returns children[i], not children[i - 1]
FindChildNext(n, key) ==
  LET i == FindChildScan(n.keys, key)
  IN IF i + 1 <= Len(n.children) THEN n.children[i + 1] ELSE NullRef

\* InternalNode.findChild: children[i - 1], NullRef when there is no such child
FindChild(n, key) ==
  LET i == FindChildScan(n.keys, key)
  IN IF i <= Len(n.children) THEN n.children[i] ELSE NullRef

\* InternalNode.findChildIndex
FindChildIndex(n, child) ==
  LET hits == {i \in 0..(Len(n.children) - 1) : n.children[i + 1] = child}
  IN IF hits = {} THEN -1 ELSE CHOOSE i \in hits : \A j \in hits : i <= j

\* the split position rounded down, not up
SplitIndexFloor(n) == Floor2(Len(n.keys))

\* InternalNode.split: the position of the middle key and the key itself
SplitIndex(n) == Ceil2(Len(n.keys))

SplitMiddleKey(n) ==
  IF SplitIndex(n) < Len(n.keys) THEN n.keys[SplitIndex(n) + 1] ELSE Undefined

\* children.forEach(child => child.setParent(p)) over the children cs
RECURSIVE SetParents(_, _, _)
SetParents(h, cs, p) ==
  IF cs = <<>> THEN h
  ELSE SetParents([h EXCEPT ![Head(cs)].parent = p], Tail(cs), p)

\* split without the forEach that reparents the moved children
InternalSplitNoReparent(h, id) ==
  LET ks == h[id].keys
      cs == h[id].children
      splitIndex == SplitIndex(h[id])
      newNode == [NewInternal EXCEPT !.keys = @ \o SliceFrom(ks, splitIndex + 1),
                                     !.children = SliceFrom(cs, splitIndex)]
  IN [Append(h, newNode) EXCEPT ![id].keys = Slice(ks, 0, splitIndex),
                                ![id].children = Slice(cs, 0, splitIndex)]

\* InternalNode.split of the node id: the new node is the last node of the result
InternalSplit(h, id) ==
  LET newId == Len(h) + 1
      ks == h[id].keys
      cs == h[id].children
      splitIndex == SplitIndex(h[id])
      newNode == [NewInternal EXCEPT !.keys = @ \o SliceFrom(ks, splitIndex + 1),
                                     !.children = SliceFrom(cs, splitIndex)]
      h1 == SetParents(Append(h, newNode), newNode.children, newId)
  IN [h1 EXCEPT ![id].keys = Slice(ks, 0, splitIndex),
                ![id].children = Slice(cs, 0, splitIndex)]

\* InternalNode.borrowFromLeft called on the node id: the heap afterwards and
\* how the call ended.  The two pops come before the check of what they gave.
BorrowFromLeft(h, id, leftSibling, parentKeyIndex) ==
  LET parent == h[id].parent
      lk == h[leftSibling].keys
      lc == h[leftSibling].children
  IN IF parent = NullRef THEN [h |-> h, res |-> "Orphan node :("]
     ELSE
     LET h1 == [h EXCEPT ![leftSibling].keys = Slice(lk, 0, Len(lk) - 1),
                         ![leftSibling].children = Slice(lc, 0, Len(lc) - 1)]
     IN IF Len(lk) = 0 \/ Len(lc) = 0
        THEN [h |-> h1, res |-> "Well, I better hope it never happens.."]
        ELSE LET lastKey == lk[Len(lk)]
                 lastChild == lc[Len(lc)]
                 pk == h1[parent].keys
                 parentKey == IF parentKeyIndex < Len(pk)
                              THEN pk[parentKeyIndex + 1] ELSE Undefined
                 h2 == [h1 EXCEPT ![parent].keys = SetIdx(pk, parentKeyIndex, lastKey)]
                 h3 == [h2 EXCEPT ![id].keys = <<NullKey, parentKey>> \o SliceFrom(h2[id].keys, 1),
                                  ![id].children = <<lastChild>> \o h2[id].children]
             IN [h |-> [h3 EXCEPT ![lastChild].parent = id], res |-> "void"]

\* borrowFromRight that pushes the stolen key, not the parent's separator,
\* onto this node
BorrowFromRightNoRotation(h, id, rightSibling, parentKeyIndex) ==
  LET parent == h[id].parent
      rk == h[rightSibling].keys
      rc == h[rightSibling].children
  IN IF parent = NullRef THEN [h |-> h, res |-> "Orphan node :("]
     ELSE
     LET keyToSteal == IF Len(rk) > 1 THEN rk[2] ELSE Undefined
         childToSteal == IF Len(rc) > 0 THEN rc[1] ELSE NullRef
         h1 == [h EXCEPT ![rightSibling].keys = <<NullKey>> \o SliceFrom(rk, 2),
                         ![rightSibling].children = SliceFrom(rc, 1)]
         pk == h1[parent].keys
         h2 == [h1 EXCEPT ![parent].keys = SetIdx(pk, parentKeyIndex, keyToSteal)]
         h3 == [h2 EXCEPT ![id].keys = Append(h2[id].keys, keyToSteal),
                          ![id].children = Append(h2[id].children, childToSteal)]
     IN IF childToSteal = NullRef
        THEN [h |-> h3, res |-> "TypeError"]
        ELSE [h |-> [h3 EXCEPT ![childToSteal].parent = id], res |-> "void"]

\* InternalNode.borrowFromRight called on the node id; without a child to
\* steal the closing setParent is a call on undefined
BorrowFromRight(h, id, rightSibling, parentKeyIndex) ==
  LET parent == h[id].parent
      rk == h[rightSibling].keys
      rc == h[rightSibling].children
  IN IF parent = NullRef THEN [h |-> h, res |-> "Orphan node :("]
     ELSE
     LET keyToSteal == IF Len(rk) > 1 THEN rk[2] ELSE Undefined
         childToSteal == IF Len(rc) > 0 THEN rc[1] ELSE NullRef
         h1 == [h EXCEPT ![rightSibling].keys = <<NullKey>> \o SliceFrom(rk, 2),
                         ![rightSibling].children = SliceFrom(rc, 1)]
         pk == h1[parent].keys
         parentKey == IF parentKeyIndex < Len(pk)
                      THEN pk[parentKeyIndex + 1] ELSE Undefined
         h2 == [h1 EXCEPT ![parent].keys = SetIdx(pk, parentKeyIndex, keyToSteal)]
         h3 == [h2 EXCEPT ![id].keys = Append(h2[id].keys, parentKey),
                          ![id].children = Append(h2[id].children, childToSteal)]
     IN IF childToSteal = NullRef
        THEN [h |-> h3, res |-> "TypeError"]
        ELSE [h |-> [h3 EXCEPT ![childToSteal].parent = id], res |-> "void"]

\* mergeWithRight that reparents nothing
InternalMergeWithRightNoReparent(h, id, rightSibling, parentKey) ==
  IF Len(h[rightSibling].children) = 0 THEN [h |-> h, res |-> "void"]
  ELSE [h |-> [h EXCEPT ![id].keys = Append(h[id].keys, parentKey)
                                       \o SliceFrom(h[rightSibling].keys, 1),
                        ![id].children = h[id].children \o h[rightSibling].children],
        res |-> "void"]

\* InternalNode.mergeWithRight called on the node id: a right sibling without
\* children makes it return at once
InternalMergeWithRight(h, id, rightSibling, parentKey) ==
  IF Len(h[rightSibling].children) = 0 THEN [h |-> h, res |-> "void"]
  ELSE LET h1 == [h EXCEPT ![id].keys = Append(h[id].keys, parentKey)
                                          \o SliceFrom(h[rightSibling].keys, 1),
                           ![id].children = h[id].children \o h[rightSibling].children]
       IN [h |-> SetParents(h1, h1[id].children, id), res |-> "void"]


\* -------------------------------------------------------------- BPlusTree
\* the check with the bound one too low
OrderRejectedBelow(o) == o < MinOrder - 1

\* the constructor's check of its order argument
OrderRejected(o) == o < MinOrder

\* the descent `while (!node.isLeaf()) node = node.findChild(key)`; NullRef
\* when findChild returns no child
RECURSIVE FindLeaf(_, _, _)
FindLeaf(h, id, key) ==
  IF id = NullRef THEN NullRef
  ELSE IF h[id].leaf THEN id
  ELSE FindLeaf(h, FindChild(h[id], key), key)

\* the new root made without `parent.children = [id]`
NewRootOverNoChild(h, id) ==
  LET pid == Len(h) + 1
  IN [Append(h, NewInternal) EXCEPT ![id].parent = pid]

\* two new nodes stacked over the old root, not one
NewRootOverTwice(h, id) ==
  LET pid == Len(h) + 1
      lower == [NewInternal EXCEPT !.children = <<id>>, !.parent = pid + 1]
      upper == [NewInternal EXCEPT !.children = <<pid>>]
  IN [Append(Append(h, lower), upper) EXCEPT ![id].parent = pid]

\* `parent = new InternalNode(order); parent.children = [id]; id.setParent(parent)`:
\* the new node is the last node of the result
NewRootOver(h, id) ==
  LET pid == Len(h) + 1
  IN [Append(h, [NewInternal EXCEPT !.children = <<id>>]) EXCEPT ![id].parent = pid]

\* the loop of BPlusTree.insert that splits overflowing ancestors
RECURSIVE SplitLoop(_, _, _, _)
SplitLoop(h, rt, ord, internalNode) ==
  IF GetKeyCount(h[internalNode]) >= ord
  THEN LET middleKey == SplitMiddleKey(h[internalNode])
           h1 == InternalSplit(h, internalNode)
           rightNode == Len(h1)
           h2 == IF internalNode = rt THEN NewRootOver(h1, internalNode) ELSE h1
           rt2 == IF internalNode = rt THEN Len(h2) ELSE rt
           parentNode == h2[internalNode].parent
       IN IF parentNode = NullRef
          THEN [h |-> h2, root |-> rt2, res |-> "TypeError"]
          ELSE SplitLoop(InsertKeyAndChild(h2, parentNode, middleKey, rightNode),
                         rt2, ord, parentNode)
  ELSE [h |-> h, root |-> rt, res |-> "void"]

\* insert that lets a leaf grow to order + 1 keys before it splits it
TreeInsertSplitLate(h, rt, ord, key, value) ==
  LET leaf == FindLeaf(h, rt, key)
  IN IF leaf = NullRef THEN [h |-> h, root |-> rt, res |-> "TypeError"]
     ELSE
     LET h1 == LeafInsert(h, leaf, key, value)
     IN IF GetKeyCount(h1[leaf]) <= ord + 1
        THEN [h |-> h1, root |-> rt, res |-> "void"]
        ELSE LET h2 == LeafSplit(h1, leaf)
                 rightNode == Len(h2)
                 splitKey == h2[rightNode].keys[1]
                 h3 == IF leaf = rt THEN NewRootOver(h2, leaf) ELSE h2
                 rt3 == IF leaf = rt THEN Len(h3) ELSE rt
                 internalNode == h3[leaf].parent
             IN IF internalNode = NullRef
                THEN [h |-> h3, root |-> rt3, res |-> "TypeError"]
                ELSE SplitLoop(InsertKeyAndChild(h3, internalNode, splitKey, rightNode),
                               rt3, ord, internalNode)

\* BPlusTree.insert: the heap and root afterwards, and how the call ended
TreeInsert(h, rt, ord, key, value) ==
  LET leaf == FindLeaf(h, rt, key)
  IN IF leaf = NullRef THEN [h |-> h, root |-> rt, res |-> "TypeError"]
     ELSE
     LET h1 == LeafInsert(h, leaf, key, value)
     IN IF GetKeyCount(h1[leaf]) <= ord
        THEN [h |-> h1, root |-> rt, res |-> "void"]
        ELSE LET h2 == LeafSplit(h1, leaf)
                 rightNode == Len(h2)
                 splitKey == h2[rightNode].keys[1]
                 h3 == IF leaf = rt THEN NewRootOver(h2, leaf) ELSE h2
                 rt3 == IF leaf = rt THEN Len(h3) ELSE rt
                 internalNode == h3[leaf].parent
             IN IF internalNode = NullRef
                THEN [h |-> h3, root |-> rt3, res |-> "TypeError"]
                ELSE SplitLoop(InsertKeyAndChild(h3, internalNode, splitKey, rightNode),
                               rt3, ord, internalNode)

\* BPlusTree.search
TreeSearch(h, rt, key) ==
  LET leaf == FindLeaf(h, rt, key)
  IN IF leaf = NullRef THEN Undefined ELSE LeafSearch(h[leaf], key)

\* BPlusTree.delete: the heap afterwards, how the call ended ("true", "false"
\* or "TypeError") and which branch it took
TreeDelete(h, rt, ord, key) ==
  LET leaf == FindLeaf(h, rt, key)
  IN IF leaf = NullRef THEN [h |-> h, res |-> "TypeError", how |-> "throw"]
     ELSE IF ~LeafDeleteFound(h[leaf], key)
     THEN [h |-> h, res |-> "false", how |-> "absent"]
     ELSE
     LET h1 == LeafDelete(h, leaf, key)
     IN IF HalfFull(h1[leaf], ord)
        THEN [h |-> h1, res |-> "true", how |-> "none"]
        ELSE LET parent == h1[leaf].parent
             IN IF parent = NullRef
                THEN [h |-> h1, res |-> "TypeError", how |-> "throw"]
                ELSE
                LET splitIndex == FindChildIndex(h1[parent], leaf)
                IN IF BorrowLeftKey(h1, leaf, ord) # Undefined
                   THEN [h |-> [TryBorrowFromLeft(h1, leaf, ord) EXCEPT
                                  ![parent].keys =
                                     SetIdx(@, splitIndex - 1, BorrowLeftKey(h1, leaf, ord))],
                         res |-> "true", how |-> "borrowLeft"]
                   ELSE IF BorrowRightKey(h1, leaf, ord) # Undefined
                   THEN [h |-> [TryBorrowFromRight(h1, leaf, ord) EXCEPT
                                  ![parent].keys =
                                     SetIdx(@, splitIndex, BorrowRightKey(h1, leaf, ord))],
                         res |-> "true", how |-> "borrowRight"]
                   ELSE LET leftLeaf == h1[leaf].prev
                        IN IF leftLeaf # NullRef
                           THEN [h |-> LeafMergeWithRight(h1, leftLeaf, leaf),
                                 res |-> "true", how |-> "mergeLeft"]
                           ELSE [h |-> h1, res |-> "true", how |-> "noMerge"]

\* whether the descent `while (!node.isLeaf()) node = node.findChild(key)`
\* from the node id ends, on a leaf or on no child, having visited at most
\* fuel nodes
RECURSIVE DescentEnds(_, _, _, _)
DescentEnds(h, id, key, fuel) ==
  IF id = NullRef THEN TRUE
  ELSE IF fuel = 0 THEN FALSE
  ELSE IF h[id].leaf THEN TRUE
  ELSE DescentEnds(h, FindChild(h[id], key), key, fuel - 1)

\* whether the walk `while (node) node = node.getNext()` of size() from the
\* leaf id reaches null having visited at most fuel leaves
RECURSIVE WalkEnds(_, _, _)
WalkEnds(h, id, fuel) ==
  IF id = NullRef THEN TRUE
  ELSE IF fuel = 0 THEN FALSE
  ELSE WalkEnds(h, h[id].next, fuel - 1)

\* BPlusTree.isEmpty
IsEmptyOf(h, rt) == h[rt].leaf /\ GetKeyCount(h[rt]) = 0

\* the descent along getChild(0) that getHeight, size and validateLeafLinkedList
\* share: the leftmost leaf
RECURSIVE LeftmostLeaf(_, _)
LeftmostLeaf(h, id) ==
  IF h[id].leaf THEN id ELSE LeftmostLeaf(h, h[id].children[1])

\* getHeight that counts the steps down to the leaf, not the levels
RECURSIVE HeightOfSteps(_, _)
HeightOfSteps(h, id) ==
  IF h[id].leaf THEN 0 ELSE 1 + HeightOfSteps(h, h[id].children[1])

\* BPlusTree.getHeight
RECURSIVE HeightOf(_, _)
HeightOf(h, id) ==
  IF h[id].leaf THEN 1 ELSE 1 + HeightOf(h, h[id].children[1])

\* the leaves met walking next links from the leaf id, in order; the walk
\* stops when it meets a leaf again
RECURSIVE ChainFrom(_, _, _)
ChainFrom(h, id, seen) ==
  IF id = NullRef \/ id \in seen THEN <<>>
  ELSE <<id>> \o ChainFrom(h, h[id].next, seen \cup {id})

\* whether walking next links from the leaf id comes back to a leaf already met
RECURSIVE ChainCyclic(_, _, _)
ChainCyclic(h, id, seen) ==
  IF id = NullRef THEN FALSE
  ELSE IF id \in seen THEN TRUE
  ELSE ChainCyclic(h, h[id].next, seen \cup {id})

RECURSIVE SumKeyCounts(_, _)
SumKeyCounts(h, leaves) ==
  IF leaves = <<>> THEN 0
  ELSE GetKeyCount(h[Head(leaves)]) + SumKeyCounts(h, Tail(leaves))

\* BPlusTree.size (which does not return when the chain is cyclic)
SizeOf(h, rt) == SumKeyCounts(h, ChainFrom(h, LeftmostLeaf(h, rt), {}))

\* ---------------------------------------------------------------- validate
Range(s) == {s[i] : i \in 1..Len(s)}

\* BPlusTree.defaultCompare
Compare(a, b) == IF a < b THEN -1 ELSE IF a > b THEN 1 ELSE 0

\* BPlusTree.getAllKeysInSubtree, as the set of the keys it returns
RECURSIVE GetAllKeysInSubtree(_, _)
GetAllKeysInSubtree(h, id) ==
  IF h[id].leaf THEN Range(GetKeys(h[id]))
  ELSE UNION {GetAllKeysInSubtree(h, h[id].children[i]) : i \in 1..Len(h[id].children)}

\* check 1 of validateNode: the key-count bounds
KeyCountOk(h, rt, ord, id) ==
  IF id = rt THEN h[id].leaf \/ GetKeyCount(h[id]) # 0
  ELSE HalfFull(h[id], ord)

\* check 2: the keys of the node are strictly increasing
KeysSorted(keys) ==
  \A i \in 1..(Len(keys) - 1) : Compare(keys[i], keys[i + 1]) < 0

\* check 3: the keys lie in [minKey, maxKey), NullKey standing for no bound
KeysInRange(keys, minKey, maxKey) ==
  /\ (minKey # NullKey /\ Len(keys) > 0) => Compare(keys[1], minKey) >= 0
  /\ (maxKey # NullKey /\ Len(keys) > 0) => Compare(keys[Len(keys)], maxKey) < 0

\* check 7: the separator invariant between adjacent children
SeparatorsOk(h, id) ==
  LET keys == GetKeys(h[id])
      children == h[id].children
  IN \A i \in 1..Len(keys) :
       /\ \A key \in GetAllKeysInSubtree(h, children[i]) : Compare(key, keys[i]) < 0
       /\ \A key \in GetAllKeysInSubtree(h, children[i + 1]) : Compare(key, keys[i]) >= 0

\* validateNode: TRUE when it returns, FALSE when it raises.  leafLevel is the
\* level of the first leaf the recursion meets, the leftmost one.
RECURSIVE ValidateNode(_, _, _, _, _, _, _, _)
ValidateNode(h, rt, ord, leafLevel, id, level, minKey, maxKey) ==
  LET keys == GetKeys(h[id])
      children == h[id].children
  IN /\ KeyCountOk(h, rt, ord, id)
     /\ KeysSorted(keys)
     /\ KeysInRange(keys, minKey, maxKey)
     /\ IF h[id].leaf
        THEN level = leafLevel
        ELSE /\ Len(children) = Len(keys) + 1
             /\ \A i \in 1..Len(children) :
                  /\ h[children[i]].parent = id
                  /\ ValidateNode(h, rt, ord, leafLevel, children[i], level + 1,
                                  IF i = 1 THEN minKey ELSE keys[i - 1],
                                  IF i = Len(keys) + 1 THEN maxKey ELSE keys[i])
             /\ SeparatorsOk(h, id)

\* validateLeafLinkedList: TRUE when it returns, FALSE when it raises
ValidateLeafLinkedList(h, rt) ==
  LET first == LeftmostLeaf(h, rt)
      chain == ChainFrom(h, first, {})
  IN /\ ~ChainCyclic(h, first, {})
     /\ \A i \in 1..Len(chain) :
          /\ h[chain[i]].prev = (IF i = 1 THEN NullRef ELSE chain[i - 1])
          /\ i > 1 =>
               LET prevKeys == GetKeys(h[chain[i - 1]])
                   currentKeys == GetKeys(h[chain[i]])
               IN (Len(prevKeys) > 0 /\ Len(currentKeys) > 0) =>
                    Compare(prevKeys[Len(prevKeys)], currentKeys[1]) < 0

\* BPlusTree.validate: TRUE when it returns true, FALSE when it raises
ValidateOf(h, rt, ord) ==
  \/ IsEmptyOf(h, rt)
  \/ /\ ValidateNode(h, rt, ord, HeightOf(h, rt), rt, 1, NullKey, NullKey)
     /\ ValidateLeafLinkedList(h, rt)

\* ------------------------------------------ validate under a given compare
\* this.compare of a tree built with `new BPlusTree(order, compare)`: the
\* reversed order (a, b) => defaultCompare(b, a) when rev, defaultCompare
\* otherwise.  validate is the only method that calls this.compare; insert,
\* search and delete and the node classes compare keys with >, == and ===,
\* so the nodes of a tree do not depend on the compare it was built with.
CompareBy(rev, a, b) == IF rev THEN Compare(b, a) ELSE Compare(a, b)

KeysSortedBy(rev, keys) ==
  \A i \in 1..(Len(keys) - 1) : CompareBy(rev, keys[i], keys[i + 1]) < 0

KeysInRangeBy(rev, keys, minKey, maxKey) ==
  /\ (minKey # NullKey /\ Len(keys) > 0) => CompareBy(rev, keys[1], minKey) >= 0
  /\ (maxKey # NullKey /\ Len(keys) > 0) => CompareBy(rev, keys[Len(keys)], maxKey) < 0

SeparatorsOkBy(rev, h, id) ==
  LET keys == GetKeys(h[id])
      children == h[id].children
  IN \A i \in 1..Len(keys) :
       /\ \A key \in GetAllKeysInSubtree(h, children[i]) : CompareBy(rev, key, keys[i]) < 0
       /\ \A key \in GetAllKeysInSubtree(h, children[i + 1]) : CompareBy(rev, key, keys[i]) >= 0

RECURSIVE ValidateNodeBy(_, _, _, _, _, _, _, _, _)
ValidateNodeBy(rev, h, rt, ord, leafLevel, id, level, minKey, maxKey) ==
  LET keys == GetKeys(h[id])
      children == h[id].children
  IN /\ KeyCountOk(h, rt, ord, id)
     /\ KeysSortedBy(rev, keys)
     /\ KeysInRangeBy(rev, keys, minKey, maxKey)
     /\ IF h[id].leaf
        THEN level = leafLevel
        ELSE /\ Len(children) = Len(keys) + 1
             /\ \A i \in 1..Len(children) :
                  /\ h[children[i]].parent = id
                  /\ ValidateNodeBy(rev, h, rt, ord, leafLevel, children[i], level + 1,
                                    IF i = 1 THEN minKey ELSE keys[i - 1],
                                    IF i = Len(keys) + 1 THEN maxKey ELSE keys[i])
             /\ SeparatorsOkBy(rev, h, id)

ValidateLeafLinkedListBy(rev, h, rt) ==
  LET first == LeftmostLeaf(h, rt)
      chain == ChainFrom(h, first, {})
  IN /\ ~ChainCyclic(h, first, {})
     /\ \A i \in 1..Len(chain) :
          /\ h[chain[i]].prev = (IF i = 1 THEN NullRef ELSE chain[i - 1])
          /\ i > 1 =>
               LET prevKeys == GetKeys(h[chain[i - 1]])
                   currentKeys == GetKeys(h[chain[i]])
               IN (Len(prevKeys) > 0 /\ Len(currentKeys) > 0) =>
                    CompareBy(rev, prevKeys[Len(prevKeys)], currentKeys[1]) < 0

\* validate() of a tree built with the compare that rev names
ValidateOfBy(rev, h, rt, ord) ==
  \/ IsEmptyOf(h, rt)
  \/ /\ ValidateNodeBy(rev, h, rt, ord, HeightOf(h, rt), rt, 1, NullKey, NullKey)
     /\ ValidateLeafLinkedListBy(rev, h, rt)

\* ------------------------------------------- the calls that are not written
\* how a call ends: it returns value, or it raises error
Returned(value) == [threw |-> FALSE, error |-> "", value |-> value]
Raised(error) == [threw |-> TRUE, error |-> error, value |-> Undefined]

\* BPlusTree.range, min, max and toArray: each body is
\* `throw new Error('Not implemented')`
TreeRange(h, rt, startKey, endKey) == Raised("Not implemented")
TreeMin(h, rt) == Raised("Not implemented")
TreeMax(h, rt) == Raised("Not implemented")
TreeToArray(h, rt) == Raised("Not implemented")

\* ------------------------------------------------- the tree's public calls
Search(k) == TreeSearch(nodes, root, k)
IsEmpty == IsEmptyOf(nodes, root)
GetHeight == HeightOf(nodes, root)
Size == SizeOf(nodes, root)
Validate == ValidateOf(nodes, root, order)

\* the keys inserted and not deleted since
PresentKeys == {k \in AllKeys : present[k] # Undefined}

\* new BPlusTree(order) for every order of OrderInputs: the tree with an empty
\* leaf as root, or no tree and the error
Init ==
  /\ order \in OrderInputs
  /\ created = ~OrderRejected(order)
  /\ root = (IF created THEN 1 ELSE NullRef)
  /\ nodes = (IF created THEN <<NewLeaf>> ELSE <<>>)
  /\ ret = [op |-> "new", key |-> NullKey, how |-> "none",
            res |-> IF created THEN "ok" ELSE "Order must be at least 3"]
  /\ present = [k \in AllKeys |-> Undefined]
  /\ deletes = 0

\* tree.insert(k, v)
Insert(k, v) ==
  /\ created
  /\ LET r == TreeInsert(nodes, root, order, k, v)
     IN /\ Len(r.h) <= MaxNodes
        /\ nodes' = r.h
        /\ root' = r.root
        /\ ret' = [op |-> "insert", key |-> NullKey, res |-> r.res,
                   how |-> IF LeafInsertReturns(nodes[FindLeaf(nodes, root, k)], k)
                           THEN "inserted" ELSE "updated"]
  /\ present' = [present EXCEPT ![k] = v]
  /\ UNCHANGED <<order, created, deletes>>

\* tree.delete(k)
Delete(k) ==
  /\ created
  /\ deletes < MaxDeletes
  /\ deletes' = deletes + 1
  /\ LET r == TreeDelete(nodes, root, order, k)
     IN /\ nodes' = r.h
        /\ ret' = [op |-> "delete", key |-> k, how |-> r.how, res |-> r.res]
  /\ present' = [present EXCEPT ![k] = Undefined]
  /\ UNCHANGED <<order, created, root>>

\* tree['root'].insert(k, v): LeafNode.insert called on the root leaf itself,
\* as the node tests call it, without the split that BPlusTree.insert adds
LeafInsertCall(k, v) ==
  /\ created
  /\ nodes[root].leaf
  /\ ret' = [op |-> "leaf.insert", key |-> NullKey, res |-> "void",
             how |-> IF LeafInsertReturns(nodes[root], k) THEN "inserted" ELSE "updated"]
  /\ nodes' = LeafInsert(nodes, root, k, v)
  /\ present' = [present EXCEPT ![k] = v]
  /\ UNCHANGED <<order, created, root, deletes>>

\* leaf.split() called on the leaf id itself; ret.key is the splitKey returned
LeafSplitCall(id) ==
  /\ created
  /\ nodes[id].leaf
  /\ Len(nodes) < MaxLeaves
  /\ nodes' = LeafSplit(nodes, id)
  /\ ret' = [op |-> "leaf.split", key |-> LeafSplitKey(nodes, id), res |-> "void",
             how |-> "none"]
  /\ UNCHANGED <<order, created, root, present, deletes>>

\* tree.validate()
ValidateCall ==
  /\ created
  /\ ret' = [op |-> "validate", key |-> NullKey, how |-> "none",
             res |-> IF Validate THEN "true" ELSE "Error"]
  /\ UNCHANGED <<order, created, root, nodes, present, deletes>>

InsertAny == \E k \in Keys, v \in Vals : Insert(k, v)
DeleteAny == \E k \in Keys : Delete(k)
\* over the wider key range the first, the middle and the last key take every
\* value and the other keys the first value
ValsOf(k) == IF k \in {1, MaxKeyIns \div 2, MaxKeyIns} THEN Vals ELSE {1}
InsertWide == \E k \in KeysIns : \E v \in ValsOf(k) : Insert(k, v)

Next == InsertAny \/ DeleteAny
Spec == Init /\ [][Next]_vars

\* insertions only, over the wider key range
NextIns == InsertWide
SpecIns == Init /\ [][NextIns]_vars

\* insertions and deletions with the first value only: the shape of the tree
\* does not depend on the values
InsertOne == \E k \in Keys : Insert(k, 1)
NextMix == InsertOne \/ DeleteAny
SpecMix == Init /\ [][NextMix]_vars

\* insertions of the first value and a few deletions, both over the wider key
\* range: deletes on trees of height 3
InsertWideOne == \E k \in KeysIns : Insert(k, 1)
DeleteWide == \E k \in KeysIns : deletes < MaxDeletesWide /\ Delete(k)
NextWide == InsertWideOne \/ DeleteWide
SpecWide == Init /\ [][NextWide]_vars

\* the node classes used directly: inserts into the root leaf, splits of any
\* leaf, and validate
\* each key goes in with one value, neighbouring keys with different ones
ValFor(k) == (k % MaxVal) + 1
LeafInsertAny == \E k \in Keys : LeafInsertCall(k, ValFor(k))
LeafSplitAny == \E id \in 1..MaxLeaves : id <= Len(nodes) /\ LeafSplitCall(id)
NextLeaf == LeafInsertAny \/ LeafSplitAny \/ ValidateCall
SpecLeaf == Init /\ [][NextLeaf]_vars

\* the node classes used directly on a tree built by inserts, as the node
\* tests use them: the tree is built first, then one call is made on one of
\* its nodes.  The tree is built of keys it does not hold yet.
BuildInsert(k) ==
  /\ created
  /\ ret.op \in {"new", "insert"}
  /\ present[k] = Undefined
  /\ LET r == TreeInsert(nodes, root, order, k, 1)
     IN /\ Len(r.h) <= MaxNodesNode
        /\ nodes' = r.h
        /\ root' = r.root
        /\ ret' = [op |-> "insert", key |-> NullKey, res |-> r.res,
                   how |-> IF LeafInsertReturns(nodes[FindLeaf(nodes, root, k)], k)
                           THEN "inserted" ELSE "updated"]
  /\ present' = [present EXCEPT ![k] = 1]
  /\ UNCHANGED <<order, created, deletes>>

\* node.split() on the internal node id; ret.key is the middleKey returned and
\* ret.sib the rightNode
NodeSplitCall(id) ==
  /\ created
  /\ ret.op \in {"new", "insert"}
  /\ ~nodes[id].leaf
  /\ nodes' = InternalSplit(nodes, id)
  /\ ret' = [op |-> "node.split", key |-> SplitMiddleKey(nodes[id]), res |-> "void",
             how |-> "none", node |-> id, sib |-> Len(nodes) + 1, idx |-> 0]
  /\ UNCHANGED <<order, created, root, present, deletes>>

\* node.borrowFromLeft(leftSibling, parentKeyIndex) on the internal node id
BorrowFromLeftCall(id, leftSibling, parentKeyIndex) ==
  /\ created
  /\ ret.op \in {"new", "insert"}
  /\ ~nodes[id].leaf /\ ~nodes[leftSibling].leaf /\ id # leftSibling
  /\ IF nodes[id].parent = NullRef THEN parentKeyIndex = 1
     ELSE parentKeyIndex < Len(nodes[nodes[id].parent].keys)
  /\ LET r == BorrowFromLeft(nodes, id, leftSibling, parentKeyIndex)
     IN /\ nodes' = r.h
        /\ ret' = [op |-> "node.borrowFromLeft", key |-> NullKey, res |-> r.res,
                   how |-> "none", node |-> id, sib |-> leftSibling,
                   idx |-> parentKeyIndex]
  /\ UNCHANGED <<order, created, root, present, deletes>>

\* node.borrowFromRight(rightSibling, parentKeyIndex) on the internal node id
BorrowFromRightCall(id, rightSibling, parentKeyIndex) ==
  /\ created
  /\ ret.op \in {"new", "insert"}
  /\ ~nodes[id].leaf /\ ~nodes[rightSibling].leaf /\ id # rightSibling
  /\ IF nodes[id].parent = NullRef THEN parentKeyIndex = 1
     ELSE parentKeyIndex < Len(nodes[nodes[id].parent].keys)
  /\ LET r == BorrowFromRight(nodes, id, rightSibling, parentKeyIndex)
     IN /\ nodes' = r.h
        /\ ret' = [op |-> "node.borrowFromRight", key |-> NullKey, res |-> r.res,
                   how |-> "none", node |-> id, sib |-> rightSibling,
                   idx |-> parentKeyIndex]
  /\ UNCHANGED <<order, created, root, present, deletes>>

\* node.mergeWithRight(rightSibling, parentKey) on the internal node id, with
\* one of its parent's separators as parentKey
MergeWithRightCall(id, rightSibling, parentKey) ==
  /\ created
  /\ ret.op \in {"new", "insert"}
  /\ ~nodes[id].leaf /\ ~nodes[rightSibling].leaf /\ id # rightSibling
  /\ nodes[id].parent # NullRef
  /\ parentKey \in Range(GetKeys(nodes[nodes[id].parent]))
  /\ LET r == InternalMergeWithRight(nodes, id, rightSibling, parentKey)
     IN /\ nodes' = r.h
        /\ ret' = [op |-> "node.mergeWithRight", key |-> parentKey, res |-> r.res,
                   how |-> "none", node |-> id, sib |-> rightSibling, idx |-> 0]
  /\ UNCHANGED <<order, created, root, present, deletes>>

\* node.mergeWithRight(new InternalNode(order), parentKey) on the internal
\* node id: the right sibling is a node that has no children yet
MergeWithNewCall(id, parentKey) ==
  /\ created
  /\ ret.op \in {"new", "insert"}
  /\ ~nodes[id].leaf
  /\ nodes[id].parent # NullRef
  /\ parentKey \in Range(GetKeys(nodes[nodes[id].parent]))
  /\ LET r == InternalMergeWithRight(Append(nodes, NewInternal), id,
                                     Len(nodes) + 1, parentKey)
     IN /\ nodes' = r.h
        /\ ret' = [op |-> "node.mergeWithNew", key |-> parentKey, res |-> r.res,
                   how |-> "none", node |-> id, sib |-> Len(nodes) + 1, idx |-> 0]
  /\ UNCHANGED <<order, created, root, present, deletes>>

\* leaf.tryBorrowFromLeft() on the leaf id; ret.key is the key returned
TryBorrowFromLeftCall(id) ==
  /\ created
  /\ ret.op \in {"new", "insert"}
  /\ nodes[id].leaf
  /\ nodes' = TryBorrowFromLeft(nodes, id, order)
  /\ ret' = [op |-> "leaf.tryBorrowFromLeft", key |-> BorrowLeftKey(nodes, id, order),
             res |-> "returned", how |-> "none", node |-> id, sib |-> nodes[id].prev,
             idx |-> 0]
  /\ UNCHANGED <<order, created, root, present, deletes>>

\* leaf.tryBorrowFromRight() on the leaf id; ret.key is the key returned
TryBorrowFromRightCall(id) ==
  /\ created
  /\ ret.op \in {"new", "insert"}
  /\ nodes[id].leaf
  /\ nodes' = TryBorrowFromRight(nodes, id, order)
  /\ ret' = [op |-> "leaf.tryBorrowFromRight", key |-> BorrowRightKey(nodes, id, order),
             res |-> "returned", how |-> "none", node |-> id, sib |-> nodes[id].next,
             idx |-> 0]
  /\ UNCHANGED <<order, created, root, present, deletes>>

NodeIds == 1..MaxNodesNode
BuildInsertAny == \E k \in KeysNode : BuildInsert(k)
NodeSplitAny == \E id \in NodeIds : id <= Len(nodes) /\ NodeSplitCall(id)
BorrowFromLeftAny ==
  \E id, sib \in NodeIds : \E i \in 1..MaxOrder :
    id <= Len(nodes) /\ sib <= Len(nodes) /\ BorrowFromLeftCall(id, sib, i)
BorrowFromRightAny ==
  \E id, sib \in NodeIds : \E i \in 1..MaxOrder :
    id <= Len(nodes) /\ sib <= Len(nodes) /\ BorrowFromRightCall(id, sib, i)
MergeWithRightAny ==
  \E id, sib \in NodeIds : \E k \in KeysNode :
    id <= Len(nodes) /\ sib <= Len(nodes) /\ MergeWithRightCall(id, sib, k)
MergeWithNewAny ==
  \E id \in NodeIds : \E k \in KeysNode : id <= Len(nodes) /\ MergeWithNewCall(id, k)
TryBorrowFromLeftAny == \E id \in NodeIds : id <= Len(nodes) /\ TryBorrowFromLeftCall(id)
TryBorrowFromRightAny == \E id \in NodeIds : id <= Len(nodes) /\ TryBorrowFromRightCall(id)
NextNode ==
  \/ BuildInsertAny
  \/ NodeSplitAny
  \/ BorrowFromLeftAny
  \/ BorrowFromRightAny
  \/ MergeWithRightAny
  \/ MergeWithNewAny
  \/ TryBorrowFromLeftAny
  \/ TryBorrowFromRightAny
SpecNode == Init /\ [][NextNode]_vars

\* tree.search(k); ret.res is the value returned
SearchCall(k) ==
  /\ created
  /\ ret' = [op |-> "search", key |-> NullKey, how |-> "none", res |-> Search(k)]
  /\ UNCHANGED <<order, created, root, nodes, present, deletes>>

\* tree.size(); ret.res is the count returned, and the call does not return
\* when the walk over next links comes back to a leaf it has met
SizeCall ==
  /\ created
  /\ ret' = [op |-> "size", key |-> NullKey,
             how |-> IF ChainCyclic(nodes, LeftmostLeaf(nodes, root), {})
                     THEN "no return" ELSE "none",
             res |-> Size]
  /\ UNCHANGED <<order, created, root, nodes, present, deletes>>

\* every public call that is written, with the first value only; searches are
\* for the first and the last key
SearchAny == \E k \in {1, MaxKey} : SearchCall(k)
NextCalls == InsertOne \/ DeleteAny \/ SearchAny \/ SizeCall \/ ValidateCall
SpecCalls == Init /\ [][NextCalls]_vars

\* --------------------------------------------- the tree seen from the root
\* the leaves under the node id, left to right, following child references
RECURSIVE LeavesUnderSeq(_, _, _)
RECURSIVE LeavesUnder(_, _)
LeavesUnderSeq(h, cs, i) ==
  IF i > Len(cs) THEN <<>>
  ELSE LeavesUnder(h, cs[i]) \o LeavesUnderSeq(h, cs, i + 1)

LeavesUnder(h, id) ==
  IF h[id].leaf THEN <<id>> ELSE LeavesUnderSeq(h, h[id].children, 1)

\* the internal nodes under the node id, itself included
RECURSIVE InternalsUnder(_, _)
InternalsUnder(h, id) ==
  IF h[id].leaf THEN {}
  ELSE {id} \cup UNION {InternalsUnder(h, h[id].children[i]) : i \in 1..Len(h[id].children)}

\* the depths, counted from 1 at the node id, of the leaves under it
RECURSIVE LeafDepths(_, _, _)
LeafDepths(h, id, level) ==
  IF h[id].leaf THEN {level}
  ELSE UNION {LeafDepths(h, h[id].children[i], level + 1) : i \in 1..Len(h[id].children)}

\* the siblings of the node id: the children of its parent next to it
LeftSibling(h, id) ==
  LET p == h[id].parent
      i == FindChildIndex(h[p], id)
  IN IF i > 0 THEN h[p].children[i] ELSE NullRef

RightSibling(h, id) ==
  LET p == h[id].parent
      i == FindChildIndex(h[p], id)
  IN IF i >= 0 /\ i + 1 < Len(h[p].children) THEN h[p].children[i + 2] ELSE NullRef

\* the leaf chain from the leftmost leaf, and the leaves under the root
Chain == ChainFrom(nodes, LeftmostLeaf(nodes, root), {})
Leaves == LeavesUnder(nodes, root)

\* every present key is found with its value and validate() returns true
Consistent == Validate /\ \A j \in Keys : Search(j) = present[j]

\* ------------------------------------------------------------------ claims

\* C1: with insertions only, search returns the most recently inserted value
\* of every inserted key and undefined for every key never inserted.
C1_RoundTrip ==
  created => \A k \in AllKeys : Search(k) = present[k]

\* an overwrite in a tree of height 3 that holds a second value
C1_Witness ==
  /\ created
  /\ ret.op = "insert" /\ ret.how = "updated"
  /\ GetHeight = 3
  /\ \E k \in KeysIns : present[k] = 2 /\ Search(k) = 2

C2_ValidateAlways ==
  created => Validate

\* C4: size() is the number of distinct keys inserted and not deleted since.
C4_SizeIsCount ==
  created => Size = Cardinality(PresentKeys)

\* C5: on a tree whose root is an internal node, delete(k) of a present key
\* returns true, after it search(k) is undefined and a second delete(k)
\* returns false, and every other present key is still found with its value.
C5_DeletePresent ==
  [][\A k \in Keys :
       (/\ created
        /\ ~nodes[root].leaf
        /\ \A j \in Keys : Search(j) = present[j]
        /\ present[k] # Undefined
        /\ deletes' = deletes + 1
        /\ ret'.key = k)
       => /\ ret'.res = "true"
          /\ TreeSearch(nodes', root', k) = Undefined
          /\ TreeDelete(nodes', root', order', k).res = "false"
          /\ \A j \in Keys \ {k} : TreeSearch(nodes', root', j) = present[j]]_vars

\* C6: delete(k) of a key that was never inserted, or was deleted since,
\* returns false and changes neither the root nor any node.
C6_DeleteAbsent ==
  [][\A k \in Keys :
       (/\ created
        /\ present[k] = Undefined
        /\ deletes' = deletes + 1
        /\ ret'.key = k)
       => /\ ret'.res = "false"
          /\ nodes' = nodes
          /\ root' = root]_vars

\* C7: while the root is a leaf, delete of a key the tree holds returns true
\* and never raises, whatever the number of keys left.
C7_RootLeafDelete ==
  (created /\ ret.op = "delete" /\ nodes[root].leaf /\ ret.how # "absent")
    => ret.res = "true"

\* C8: an order below 3 is rejected with 'Order must be at least 3' and no
\* tree exists; any other order gives a tree whose root is an empty leaf, with
\* isEmpty() true, size() 0, getHeight() 1 and search undefined for every key.
C8_Constructor ==
  /\ order < 3 =>
       (~created /\ ret.res = "Order must be at least 3" /\ nodes = <<>> /\ root = NullRef)
  /\ order >= 3 => created
  /\ (created /\ ret.op = "new") =>
       /\ nodes[root].leaf /\ nodes[root].keys = <<>>
       /\ IsEmpty /\ Size = 0 /\ GetHeight = 1
       /\ \A k \in AllKeys : Search(k) = Undefined

\* the constructor has rejected order 2
C8_Witness ==
  order = 2 /\ ~created /\ ret.op = "new"

\* C9: isEmpty() is true exactly when no key is present, and then size() is 0
\* and getHeight() is 1.
C9_EmptyIffNoKeys ==
  created =>
    /\ IsEmpty <=> PresentKeys = {}
    /\ PresentKeys = {} => (Size = 0 /\ GetHeight = 1)

\* C10: a delete from a tree of height 2 whose root has one separator, in
\* which the underflowing leaf can borrow from neither side and is merged
\* into its left sibling, leaves a tree of height 1 in which every present
\* key is found.
C10_RootCollapse ==
  [][(/\ created
      /\ GetHeight = 2
      /\ GetKeyCount(nodes[root]) = 1
      /\ \A j \in Keys : Search(j) = present[j]
      /\ deletes' = deletes + 1
      /\ ret'.how = "mergeLeft")
     => /\ HeightOf(nodes', root') = 1
        /\ \A j \in Keys : TreeSearch(nodes', root', j) = present'[j]]_vars

\* C11: a delete that leaves a non-root leaf below halfFull() rebalances it in
\* strict order: it borrows from the left sibling when that one can lend,
\* else from the right sibling when that one can lend, else it merges the leaf
\* with its left sibling when there is one and with its right sibling
\* otherwise; one of these is applied to the leaf.  Stated from a consistent
\* tree.
C11_RebalanceOrder ==
  [][\A k \in Keys :
       LET leaf == FindLeaf(nodes, root, k)
           h1 == LeafDelete(nodes, leaf, k)
           l == LeftSibling(h1, leaf)
           r == RightSibling(h1, leaf)
       IN (/\ created
           /\ Consistent
           /\ deletes' = deletes + 1
           /\ ret'.key = k
           /\ leaf # NullRef
           /\ leaf # root
           /\ LeafDeleteFound(nodes[leaf], k)
           /\ ~HalfFull(h1[leaf], order))
          => IF l # NullRef /\ CanBorrow(h1[l], order)
             THEN /\ nodes'[leaf].keys = <<h1[l].keys[Len(h1[l].keys)]>> \o h1[leaf].keys
                  /\ nodes'[l].keys = Slice(h1[l].keys, 0, Len(h1[l].keys) - 1)
             ELSE IF r # NullRef /\ CanBorrow(h1[r], order)
             THEN /\ nodes'[leaf].keys = Append(h1[leaf].keys, h1[r].keys[1])
                  /\ nodes'[r].keys = SliceFrom(h1[r].keys, 1)
             ELSE IF l # NullRef
             THEN nodes'[l].keys = h1[l].keys \o h1[leaf].keys
             ELSE /\ r # NullRef
                  /\ \/ nodes'[leaf].keys = h1[leaf].keys \o h1[r].keys
                     \/ nodes'[r].keys = h1[leaf].keys \o h1[r].keys]_vars

\* C12: the leaves reachable from the root through child references are the
\* leaves of the chain walked through next links from the leftmost leaf, in
\* the same order; a merged-away leaf is no longer under the root.
C12_LeavesAreChain ==
  created => Leaves = Chain

\* C13: a delete from a consistent tree that leaves a non-root leaf below
\* halfFull(), with no left sibling and a right sibling that cannot lend,
\* merges the two: one leaf holds the entries of both, every remaining key is
\* found, no other key is, and validate() returns true.
C13_MergeWithRight ==
  [][\A k \in Keys :
       LET leaf == FindLeaf(nodes, root, k)
           h1 == LeafDelete(nodes, leaf, k)
           r == RightSibling(h1, leaf)
       IN (/\ created
           /\ Consistent
           /\ deletes' = deletes + 1
           /\ ret'.key = k
           /\ leaf # NullRef
           /\ leaf # root
           /\ LeafDeleteFound(nodes[leaf], k)
           /\ ~HalfFull(h1[leaf], order)
           /\ LeftSibling(h1, leaf) = NullRef
           /\ r # NullRef
           /\ ~CanBorrow(h1[r], order))
          => /\ \E m \in 1..Len(nodes') :
                  /\ nodes'[m].leaf
                  /\ nodes'[m].keys = h1[leaf].keys \o h1[r].keys
                  /\ nodes'[m].values = h1[leaf].values \o h1[r].values
             /\ \A j \in Keys : TreeSearch(nodes', root', j) = present'[j]
             /\ ValidateOf(nodes', root', order')]_vars

\* C14: after every public operation, every leaf under the root other than
\* the root holds at least floor(order / 2) keys.
C14_LeafHalfFull ==
  created =>
    \A i \in 1..Len(Leaves) :
      Leaves[i] # root => Len(nodes[Leaves[i]].keys) >= Floor2(order)

\* C15: after every public operation, every leaf, under the root or on the
\* leaf chain, holds at most `order` keys.
C15_LeafAtMostOrder ==
  created =>
    \A id \in Range(Leaves) \cup Range(Chain) : Len(nodes[id].keys) <= order

\* a delete has merged the underflowing leaf into the leaf before it, which
\* now holds order - 1 keys
C15_Witness ==
  /\ created
  /\ ret.op = "delete" /\ ret.how = "mergeLeft"
  /\ LET leaf == FindLeaf(nodes, root, ret.key)
     IN /\ nodes[leaf].prev # NullRef
        /\ Len(nodes[nodes[leaf].prev].keys) = order - 1

\* C16: in every leaf, under the root or on the chain, the keys are unique
\* and strictly increasing and there are as many values as keys.
C16_LeafKeysSorted ==
  created =>
    \A id \in Range(Leaves) \cup Range(Chain) :
      LET n == nodes[id]
      IN /\ \A i \in 1..(Len(n.keys) - 1) : n.keys[i] < n.keys[i + 1]
         /\ Len(n.values) = Len(n.keys)

\* C17: every internal node under the root has exactly keyCount() + 1
\* children.
C17_ChildCount ==
  created =>
    \A id \in InternalsUnder(nodes, root) :
      Len(nodes[id].children) = GetKeyCount(nodes[id]) + 1

\* after deletes, an internal node has been split: three internal nodes
C17_Witness ==
  /\ created
  /\ deletes > 0
  /\ ret.op = "insert"
  /\ Cardinality(InternalsUnder(nodes, root)) = 3

\* C18: all leaves under the root are at the same depth, and that depth is
\* getHeight().
C18_Balanced ==
  created => LeafDepths(nodes, root, 1) = {GetHeight}

\* after deletes, inserts have split the root a second time: four leaves, all
\* at depth 3
C18_Witness ==
  /\ created
  /\ deletes > 0
  /\ GetHeight = 3
  /\ Len(Leaves) >= 4
  /\ LeafDepths(nodes, root, 1) = {3}

\* C19: the leaf chain from the leftmost leaf is an acyclic doubly linked
\* list in key order: the first leaf has no prev, each next leaf's prev is the
\* leaf before it, and every key of a leaf is smaller than every key of the
\* next one.
C19_LeafChain ==
  created =>
    /\ ~ChainCyclic(nodes, LeftmostLeaf(nodes, root), {})
    /\ nodes[Chain[1]].prev = NullRef
    /\ \A i \in 1..(Len(Chain) - 1) :
         /\ nodes[Chain[i + 1]].prev = Chain[i]
         /\ \A a \in Range(nodes[Chain[i]].keys), b \in Range(nodes[Chain[i + 1]].keys) :
              a < b

\* the pairs (k, present[k]) of the present keys k with a <= k <= b, in
\* increasing order of k
RECURSIVE PresentPairs(_, _)
PresentPairs(a, b) ==
  IF a > b THEN <<>>
  ELSE (IF present[a] # Undefined THEN <<(<<a, present[a]>>)>> ELSE <<>>)
       \o PresentPairs(a + 1, b)

\* C20: on a non-empty tree min() and max() return the smallest and the
\* largest present key, toArray() returns all present (key, value) pairs in
\* increasing key order, range(a, b) returns the present pairs with
\* a <= key <= b in increasing order, and toArray() equals range(min(), max()).
C20_ToArrayIsRange ==
  (created /\ PresentKeys # {}) =>
    LET lo == CHOOSE k \in PresentKeys : \A j \in PresentKeys : k <= j
        hi == CHOOSE k \in PresentKeys : \A j \in PresentKeys : k >= j
    IN /\ TreeMin(nodes, root) = Returned(lo)
       /\ TreeMax(nodes, root) = Returned(hi)
       /\ TreeToArray(nodes, root) = Returned(PresentPairs(lo, hi))
       /\ \A a, b \in Keys :
            TreeRange(nodes, root, a, b) = Returned(PresentPairs(a, b))
       /\ TreeToArray(nodes, root) = TreeRange(nodes, root, lo, hi)

\* C21: on a tree built with the reversed compare, with insertions only,
\* search returns the last value inserted for every key and validate()
\* returns true.
C21_CustomCompare ==
  created =>
    /\ \A k \in AllKeys : Search(k) = present[k]
    /\ ValidateOfBy(TRUE, nodes, root, order)

\* C22: with insertions only, getHeight() is 1 while at most `order` distinct
\* keys have been inserted, and the insert of the (order + 1)-th distinct key
\* splits the root leaf: the height is 2, the new root is an internal node
\* with one separator and two children, the old root leaf and the new right
\* leaf, and all order + 1 keys are found.
C22_RootLeafSplit ==
  [][created =>
       /\ Cardinality(PresentKeys') <= order => HeightOf(nodes', root') = 1
       /\ (Cardinality(PresentKeys) = order /\ Cardinality(PresentKeys') = order + 1) =>
            /\ nodes[root].leaf
            /\ HeightOf(nodes', root') = 2
            /\ ~nodes'[root'].leaf
            /\ GetKeyCount(nodes'[root']) = 1
            /\ Len(nodes'[root'].children) = 2
            /\ nodes'[root'].children[1] = root
            /\ nodes'[nodes'[root'].children[2]].leaf
            /\ nodes'[nodes'[root'].children[2]].prev = root
            /\ \A k \in AllKeys : TreeSearch(nodes', root', k) = present'[k]]_vars

\* the insert of the (order + 1)-th key has split the root leaf
C22_Witness ==
  /\ created
  /\ ret.op = "insert" /\ ret.how = "inserted"
  /\ Cardinality(PresentKeys) = order + 1
  /\ GetHeight = 2
  /\ GetKeyCount(nodes[root]) = 1

\* C23: after a delete from a consistent tree that borrows from the left
\* sibling, the parent separator between the left sibling and the leaf is the
\* borrowed key, the leaf's new first key: every key of the left sibling is
\* smaller than it, every key of the leaf is at least it, and search finds
\* the borrowed key.
C23_BorrowLeftSeparator ==
  [][\A k \in Keys :
       LET leaf == FindLeaf(nodes, root, k)
           p == nodes[leaf].parent
           i == FindChildIndex(nodes[p], leaf)
           l == LeftSibling(nodes, leaf)
           borrowed == nodes'[leaf].keys[1]
           separator == nodes'[p].keys[i + 1]
       IN (/\ created
           /\ Consistent
           /\ deletes' = deletes + 1
           /\ ret'.key = k
           /\ ret'.how = "borrowLeft"
           /\ l # NullRef
           /\ l = nodes[leaf].prev)
          => /\ borrowed = nodes[l].keys[Len(nodes[l].keys)]
             /\ separator = borrowed
             /\ \A a \in Range(nodes'[l].keys) : a < separator
             /\ \A a \in Range(nodes'[leaf].keys) : a >= separator
             /\ TreeSearch(nodes', root', borrowed) = present'[borrowed]
             /\ present'[borrowed] # Undefined]_vars

\* C24: after a delete from a consistent tree that borrows from the right
\* sibling, the parent separator between the leaf and the right sibling is
\* the right sibling's new first key and no other key slot of the parent has
\* changed: every key of the leaf is smaller than the separator, every key of
\* the right sibling is at least it, and search finds the borrowed key.
C24_BorrowRightSeparator ==
  [][\A k \in Keys :
       LET leaf == FindLeaf(nodes, root, k)
           p == nodes[leaf].parent
           i == FindChildIndex(nodes[p], leaf)
           r == RightSibling(nodes, leaf)
           borrowed == nodes[r].keys[1]
           separator == nodes'[p].keys[i + 2]
       IN (/\ created
           /\ Consistent
           /\ deletes' = deletes + 1
           /\ ret'.key = k
           /\ ret'.how = "borrowRight"
           /\ r # NullRef
           /\ r = nodes[leaf].next)
          => /\ nodes'[leaf].keys[Len(nodes'[leaf].keys)] = borrowed
             /\ separator = nodes'[r].keys[1]
             /\ \A j \in 1..Len(nodes[p].keys) :
                  j # i + 2 => nodes'[p].keys[j] = nodes[p].keys[j]
             /\ \A a \in Range(nodes'[leaf].keys) : a < separator
             /\ \A a \in Range(nodes'[r].keys) : a >= separator
             /\ TreeSearch(nodes', root', borrowed) = present'[borrowed]
             /\ present'[borrowed] # Undefined]_vars

\* C25: a delete from a consistent tree that borrows or merges changes, apart
\* from the underflowing leaf, only a true sibling of it: a leaf with the
\* same parent at the child index just before or just after it.
C25_SiblingsOnly ==
  [][LET leaf == FindLeaf(nodes, root, ret'.key)
         p == nodes[leaf].parent
     IN (/\ created
         /\ deletes' = deletes + 1
         /\ ret'.how \in {"borrowLeft", "borrowRight", "mergeLeft"}
         /\ Validate
         /\ \A j \in KeysIns : Search(j) = present[j])
        => \A m \in 1..Len(nodes) :
             (m # leaf /\ nodes[m].leaf /\ nodes'[m].keys # nodes[m].keys)
             => /\ nodes[m].parent = p
                /\ \/ FindChildIndex(nodes[p], m) = FindChildIndex(nodes[p], leaf) - 1
                   \/ FindChildIndex(nodes[p], m) = FindChildIndex(nodes[p], leaf) + 1]_vars

\* C26: an insert splits an internal node (the node loses separators) only
\* when, with the separator just added, it holds more than `order` of them.
C26_InternalSplitThreshold ==
  [][created =>
       \A id \in 1..Len(nodes) :
         (~nodes[id].leaf /\ GetKeyCount(nodes'[id]) < GetKeyCount(nodes[id]))
         => GetKeyCount(nodes[id]) + 1 > order]_vars

\* C27: for every node, halfFull() is true exactly when keyCount() is at
\* least floor(order / 2), and canBorrow() exactly when keyCount() - 1 is.
C27_HalfFullByKeyCount ==
  created =>
    \A id \in 1..Len(nodes) :
      /\ HalfFull(nodes[id], order) <=> GetKeyCount(nodes[id]) >= Floor2(order)
      /\ CanBorrow(nodes[id], order) <=> GetKeyCount(nodes[id]) - 1 >= Floor2(order)

\* C28: when validate() returns true, no node under the root holds more than
\* `order` keys and no node under the root other than the root holds fewer
\* than floor(order / 2).
C28_ValidateBounds ==
  (created /\ ret.op = "validate" /\ ret.res = "true") =>
    \A id \in Range(Leaves) \cup InternalsUnder(nodes, root) :
      /\ GetKeyCount(nodes[id]) <= order
      /\ id # root => GetKeyCount(nodes[id]) >= Floor2(order)

\* C29: for every node, getKey(i) is the i-th key of getKeys(), for i from 0
\* to keyCount() - 1.
C29_GetKey ==
  created =>
    \A id \in 1..Len(nodes) :
      \A i \in 0..(GetKeyCount(nodes[id]) - 1) :
        GetKey(nodes[id], i) = GetKeys(nodes[id])[i + 1]

\* C30: leaf.split() on a leaf with n entries keeps the first ceil(n / 2)
\* entries in the leaf and moves the rest, in order, to a new right leaf; the
\* splitKey returned is the first key of the right leaf; the chain is relinked:
\* left.next = right, right.prev = left, right.next = the old next and the old
\* next's prev = right; no entry is lost or duplicated and no other leaf
\* changes its entries.
C30_LeafSplit ==
  [][\A id \in 1..Len(nodes) :
       (ret'.op = "leaf.split" /\ nodes' = LeafSplit(nodes, id)) =>
         LET n == Len(nodes[id].keys)
             keep == (n + 1) \div 2
             right == Len(nodes) + 1
             oldNext == nodes[id].next
         IN /\ Len(nodes') = Len(nodes) + 1
            /\ nodes'[right].leaf
            /\ nodes'[id].keys = SubSeq(nodes[id].keys, 1, keep)
            /\ nodes'[id].values = SubSeq(nodes[id].values, 1, keep)
            /\ nodes'[right].keys = SubSeq(nodes[id].keys, keep + 1, n)
            /\ nodes'[right].values = SubSeq(nodes[id].values, keep + 1, n)
            /\ nodes'[id].keys \o nodes'[right].keys = nodes[id].keys
            /\ n > keep => ret'.key = nodes'[right].keys[1]
            /\ nodes'[id].next = right
            /\ nodes'[right].prev = id
            /\ nodes'[right].next = oldNext
            /\ nodes'[id].prev = nodes[id].prev
            /\ oldNext # NullRef => nodes'[oldNext].prev = right
            /\ \A m \in 1..Len(nodes) :
                 m # id => /\ nodes'[m].keys = nodes[m].keys
                           /\ nodes'[m].values = nodes[m].values
                           /\ nodes'[m].next = nodes[m].next]_vars

\* a leaf with an odd number of entries and a next leaf has been split: the
\* new leaf sits between the two
C30_Witness ==
  /\ created
  /\ ret.op = "leaf.split"
  /\ Len(nodes) = 3
  /\ \E id \in 1..2 :
       /\ nodes[id].next = 3
       /\ nodes[3].prev = id
       /\ nodes[3].next # NullRef
       /\ nodes[nodes[3].next].prev = 3
       /\ Len(nodes[id].keys) = Len(nodes[3].keys) + 1
       /\ Len(nodes[3].keys) > 0

\* C31: node.split() on an internal node with n >= 1 separators k[0..n-1] and
\* children c[0..n] returns the middle key k[floor(n / 2)], which stays in
\* neither half: the node keeps k[0..mid-1] and c[0..mid], the new right node
\* gets k[mid+1..n-1] and c[mid+1..n]; every moved child's parent is the new
\* node, and for both nodes childCount = keyCount + 1.
C31_InternalSplit ==
  [][ret'.op = "node.split" =>
       LET id == ret'.node
           right == ret'.sib
           k == GetKeys(nodes[id])
           c == nodes[id].children
           n == Len(k)
           mid == n \div 2
       IN (n >= 1 /\ Len(c) = n + 1) =>
            /\ right = Len(nodes) + 1
            /\ Len(nodes') = right
            /\ ~nodes'[right].leaf
            /\ ret'.key = k[mid + 1]
            /\ GetKeys(nodes'[id]) = SubSeq(k, 1, mid)
            /\ nodes'[id].children = SubSeq(c, 1, mid + 1)
            /\ GetKeys(nodes'[right]) = SubSeq(k, mid + 2, n)
            /\ nodes'[right].children = SubSeq(c, mid + 2, n + 1)
            /\ \A j \in (mid + 2)..(n + 1) : nodes'[c[j]].parent = right
            /\ Len(nodes'[id].children) = GetKeyCount(nodes'[id]) + 1
            /\ Len(nodes'[right].children) = GetKeyCount(nodes'[right]) + 1]_vars

\* a node with three separators has been split: each half has one separator
\* and two children, and the right half's children name it as their parent
C31_Witness ==
  /\ created
  /\ ret.op = "node.split"
  /\ GetKeys(nodes[ret.node]) # <<>>
  /\ GetKeys(nodes[ret.sib]) # <<>>
  /\ ret.key > GetKeys(nodes[ret.node])[1]
  /\ ret.key < GetKeys(nodes[ret.sib])[1]
  /\ Len(nodes[ret.sib].children) = 2
  /\ \A j \in 1..2 : nodes[nodes[ret.sib].children[j]].parent = ret.sib

\* C32: on an internal node whose separators increase and that has one child
\* more than separators, findChild(key) returns children[j] with j the number
\* of separators <= key: a key below every separator goes to the first child,
\* a key equal to a separator to the child on its right, and a node with one
\* child and no separator returns that child for every key.
C32_FindChild ==
  created =>
    \A id \in 1..Len(nodes) :
      LET seps == GetKeys(nodes[id])
          cs == nodes[id].children
      IN (/\ ~nodes[id].leaf
          /\ Len(cs) = Len(seps) + 1
          /\ \A i \in 1..(Len(seps) - 1) : seps[i] < seps[i + 1])
         => \A key \in KeysNode :
              LET j == Cardinality({i \in 1..Len(seps) : seps[i] <= key})
              IN /\ FindChild(nodes[id], key) = cs[j + 1]
                 /\ (\A i \in 1..Len(seps) : key < seps[i])
                      => FindChild(nodes[id], key) = cs[1]
                 /\ \A i \in 1..Len(seps) :
                      key = seps[i] => FindChild(nodes[id], key) = cs[i + 1]
                 /\ seps = <<>> => FindChild(nodes[id], key) = cs[1]

\* a split has left a node with one child and no separator, which every key
\* is routed to, and the root above it routes its first separator to the right
\* of it and the key before to the left
C32_Witness ==
  /\ created
  /\ ret.op = "node.split"
  /\ GetKeys(nodes[ret.node]) = <<>>
  /\ Len(nodes[ret.node].children) = 1
  /\ \A key \in KeysNode : FindChild(nodes[ret.node], key) = nodes[ret.node].children[1]
  /\ root # ret.node
  /\ Len(GetKeys(nodes[root])) >= 1
  /\ FindChild(nodes[root], GetKeys(nodes[root])[1]) = nodes[root].children[2]
  /\ FindChild(nodes[root], GetKeys(nodes[root])[1] - 1) = nodes[root].children[1]

C34_InternalBorrow ==
  [][ret'.op \in {"node.borrowFromLeft", "node.borrowFromRight"} =>
       LET fromLeft == ret'.op = "node.borrowFromLeft"
           id == ret'.node
           sib == ret'.sib
           idx == ret'.idx
           p == nodes[id].parent
           left == IF fromLeft THEN sib ELSE id
           right == IF fromLeft THEN id ELSE sib
       IN (/\ p # NullRef
           /\ nodes[sib].parent = p
           /\ FindChildIndex(nodes[p], left) >= 0
           /\ FindChildIndex(nodes[p], right) = FindChildIndex(nodes[p], left) + 1
           /\ idx = FindChildIndex(nodes[p], right)
           /\ GetKeyCount(nodes[sib]) >= 1)
          =>
          LET sk == GetKeys(nodes[sib])
              sc == nodes[sib].children
              ik == GetKeys(nodes[id])
              ic == nodes[id].children
              sep == GetKeys(nodes[p])[idx]
              movedKey == IF fromLeft THEN sk[Len(sk)] ELSE sk[1]
              movedChild == IF fromLeft THEN sc[Len(sc)] ELSE sc[1]
          IN /\ ret'.res = "void"
             /\ GetKeys(nodes'[id]) = IF fromLeft THEN <<sep>> \o ik ELSE Append(ik, sep)
             /\ GetKeys(nodes'[p]) = [GetKeys(nodes[p]) EXCEPT ![idx] = movedKey]
             /\ GetKeys(nodes'[sib]) = IF fromLeft THEN SubSeq(sk, 1, Len(sk) - 1) ELSE Tail(sk)
             /\ nodes'[id].children = IF fromLeft THEN <<movedChild>> \o ic
                                      ELSE Append(ic, movedChild)
             /\ nodes'[sib].children = IF fromLeft THEN SubSeq(sc, 1, Len(sc) - 1) ELSE Tail(sc)
             /\ nodes'[movedChild].parent = id
             /\ nodes'[p].children = nodes[p].children
             /\ nodes'[p].keys[1] = NullKey
             /\ Len(nodes'[id].children) = GetKeyCount(nodes'[id]) + 1
             /\ Len(nodes'[sib].children) = GetKeyCount(nodes'[sib]) + 1
             /\ \A a \in Range(GetKeys(nodes'[left])) : a < GetKeys(nodes'[p])[idx]
             /\ \A b \in Range(GetKeys(nodes'[right])) : GetKeys(nodes'[p])[idx] < b]_vars

\* a node has borrowed from its left sibling, which had two separators: the
\* sibling keeps one, the borrower has two, and the separator between them in
\* the parent lies between their keys
C34_Witness ==
  /\ created
  /\ ret.op = "node.borrowFromLeft"
  /\ ret.res = "void"
  /\ nodes[ret.node].parent # NullRef
  /\ nodes[ret.sib].parent = nodes[ret.node].parent
  /\ LET p == nodes[nodes[ret.node].parent]
     IN /\ FindChildIndex(p, ret.node) = ret.idx
        /\ FindChildIndex(p, ret.sib) = ret.idx - 1
        /\ Len(GetKeys(nodes[ret.sib])) = 1
        /\ Len(GetKeys(nodes[ret.node])) = 2
        /\ GetKeys(nodes[ret.sib])[1] < p.keys[ret.idx + 1]
        /\ p.keys[ret.idx + 1] < GetKeys(nodes[ret.node])[1]
  /\ nodes[nodes[ret.node].children[1]].parent = ret.node

\* C35: node.mergeWithRight(right, parentKey), called with a right sibling
\* that has children and, like the node, one child more than keys, leaves the
\* node with its old keys, then parentKey, then all of right's keys, and with
\* its old children followed by right's children in order; every child of the
\* merged node has the node as its parent, and childCount = keyCount + 1.
C35_InternalMerge ==
  [][ret'.op = "node.mergeWithRight" =>
       LET id == ret'.node
           right == ret'.sib
           parentKey == ret'.key
       IN (/\ Len(nodes[right].children) > 0
           /\ Len(nodes[right].children) = GetKeyCount(nodes[right]) + 1
           /\ Len(nodes[id].children) = GetKeyCount(nodes[id]) + 1)
          => /\ ret'.res = "void"
             /\ GetKeys(nodes'[id]) =
                  GetKeys(nodes[id]) \o <<parentKey>> \o GetKeys(nodes[right])
             /\ nodes'[id].keys[1] = NullKey
             /\ nodes'[id].children = nodes[id].children \o nodes[right].children
             /\ \A j \in 1..Len(nodes'[id].children) :
                  nodes'[nodes'[id].children[j]].parent = id
             /\ Len(nodes'[id].children) = GetKeyCount(nodes'[id]) + 1]_vars

\* a node has been merged with its right sibling under the separator that
\* stood between them: it holds its own separator, that one and the sibling's,
\* and the sibling's children name it as their parent
C35_Witness ==
  /\ created
  /\ ret.op = "node.mergeWithRight"
  /\ nodes[ret.sib].parent = nodes[ret.node].parent
  /\ Len(GetKeys(nodes[ret.node])) >= 3
  /\ ret.key \in Range(GetKeys(nodes[ret.node]))
  /\ \A i \in 1..(Len(GetKeys(nodes[ret.node])) - 1) :
       GetKeys(nodes[ret.node])[i] < GetKeys(nodes[ret.node])[i + 1]
  /\ \A j \in 1..Len(nodes[ret.sib].children) :
       /\ nodes[ret.sib].children[j] \in Range(nodes[ret.node].children)
       /\ nodes[nodes[ret.sib].children[j]].parent = ret.node

\* C36: node.mergeWithRight called with a right sibling that has no children
\* raises an error: it does not return normally.
C36_MergeFailsFast ==
  (created /\ ret.op = "node.mergeWithNew" /\ nodes[ret.sib].children = <<>>)
    => ret.res # "void"

\* C37: getHeight() changes only when the root is replaced.  An insert leaves
\* it as it was or raises it by exactly 1, and raises it exactly when the root
\* splits, that is when a new root is put over the old one and its new
\* sibling; a delete never raises it; search, size, validate and the delete of
\* an absent key leave it, and the tree, as they were.
C37_HeightSteps ==
  [][created =>
       LET before == HeightOf(nodes, root)
           after == HeightOf(nodes', root')
       IN /\ ret'.op = "insert" =>
               /\ after \in {before, before + 1}
               /\ after = before + 1 <=> root' # root
               /\ root' # root =>
                    /\ root' = Len(nodes')
                    /\ nodes'[root'].children = <<root, nodes'[root'].children[2]>>
                    /\ nodes'[root'].children[2] > Len(nodes)
                    /\ nodes'[root].parent = root'
          /\ ret'.op = "delete" => after <= before /\ root' = root
          /\ (ret'.op = "delete" /\ ret'.how = "absent") => nodes' = nodes
          /\ ret'.op \in {"search", "size", "validate"} =>
               after = before /\ nodes' = nodes /\ root' = root]_vars

\* an insert has split the internal root: the tree has height 3 and the new
\* root, the newest node, stands over the old root and its new sibling
C37_Witness ==
  /\ created
  /\ ret.op = "insert"
  /\ GetHeight = 3
  /\ root = Len(nodes)
  /\ Len(nodes[root].children) = 2
  /\ ~nodes[nodes[root].children[1]].leaf
  /\ nodes[nodes[root].children[1]].parent = root

\* C38: on the tree every insert and delete leaves, each loop of insert,
\* delete, search and size has a bound.  The descent for any key ends having
\* visited at most getHeight() nodes, one per level; an insert adds at most
\* one leaf and at most one internal node per level it found (a split per
\* ancestor level, or the new root), and leaves no internal node with `order`
\* separators or more for its loop to go on with; the position scan of
\* insertKeyAndChild stops inside the keys array or at its end; and the walk
\* of size() over next links reaches null within the number of leaves and
\* never comes back to a leaf, so size() returns.
C38_Terminates ==
  [][created =>
       LET leaves == {i \in 1..Len(nodes') : nodes'[i].leaf}
           internals == {i \in 1..Len(nodes') : ~nodes'[i].leaf}
           news == (Len(nodes) + 1)..Len(nodes')
       IN /\ \A k \in Keys : DescentEnds(nodes', root', k, HeightOf(nodes', root'))
          /\ WalkEnds(nodes', LeftmostLeaf(nodes', root'), Cardinality(leaves))
          /\ ~ChainCyclic(nodes', LeftmostLeaf(nodes', root'), {})
          /\ ret'.op = "insert" =>
               /\ Cardinality(news \cap leaves) <= 1
               /\ Cardinality(news \cap internals) <= HeightOf(nodes, root)
               /\ \A i \in internals : GetKeyCount(nodes'[i]) < order
          /\ ret'.op # "insert" => Len(nodes') = Len(nodes)
          /\ \A i \in internals : \A k \in Keys :
               /\ InsertScan(nodes'[i].keys, k) >= 1
               /\ InsertScan(nodes'[i].keys, k) <= Len(nodes'[i].keys)]_vars

\* an insert has split a leaf and the internal root over it on a tree that
\* deletes have run on: the tree has height 3, the new root is the newest
\* node, and the walk over next links from the leftmost leaf goes over three
\* leaves or more and meets null
C38_Witness ==
  /\ created
  /\ ret.op = "insert"
  /\ deletes > 0
  /\ GetHeight = 3
  /\ root = Len(nodes)
  /\ Len(Chain) >= 3
  /\ nodes[Chain[Len(Chain)]].next = NullRef

====
